---------------------------- MODULE Spec2Model ----------------------------
(***************************************************************************)
(* A model of the catalyst influence engine of propai-mvp:                 *)
(*   - import_catalysts.py : upsert_catalysts (the reconciler),            *)
(*   - state_incentives.py : the ingestion pipeline and its rules,         *)
(*   - main.py             : load_catalysts_from_supabase,                 *)
(*   - catalyst_impact.py  : the radial decay and the aggregator.          *)
(*                                                                         *)
(* Numbers.  Python floats are modelled in fixed point:                    *)
(*   miles      in thousandths of a mile,                                  *)
(*   weights    in ten-thousandths (10000 is 1.0),                         *)
(*   strengths  in hundredths      (100 is 1.0),                           *)
(*   money      in whole dollars, years and jobs as integers.              *)
(* An optional number is a record [k, v]: k is "none" (Python None),       *)
(* "num" (v is the value) or "nan" (float('nan')).                         *)
(***************************************************************************)
EXTENDS Integers, Sequences, FiniteSets, TLC

VARIABLES
    store,      \* the `catalysts` table: a sequence of records, in insertion order
    nextId,     \* the id the table gives to the next inserted record
    run,        \* run[p]: the position of execution p of upsert_catalysts
    hist,       \* the completed runs of execution 1 (at most the last two)
    started,    \* the executions that have begun their run of the interleaved case
    now_year,   \* datetime.utcnow().year
    src,        \* the last call of load_state_source: its input and its outcome
    ing,        \* load_all_state_incentives: its position and its all_rows
    loaded,     \* main.py's CATALYSTS: whether the load ran, and what it gave
    scored,     \* the last call of score_property: the query and the score
    call        \* the last call of one of the pure functions: arguments and result

upsertVars == <<store, nextId, run, hist, started>>

ingestVars == <<now_year, src, ing>>

scoreVars == <<loaded, scored>>

callVars == <<call>>

vars == <<upsertVars, ingestVars, scoreVars, callVars>>

-----------------------------------------------------------------------------
(* Optional numbers *)

None == [k |-> "none", v |-> 0]
NaN == [k |-> "nan", v |-> 0]
Num(n) == [k |-> "num", v |-> n]

IsNone(x) == x.k = "none"
IsNum(x) == x.k = "num"

Max(a, b) == IF a >= b THEN a ELSE b
Min(a, b) == IF a <= b THEN a ELSE b

RECURSIVE SeqsUpTo(_, _)
\* all sequences over S of length at most n
SeqsUpTo(S, n) ==
    IF n = 0 THEN {<<>>}
    ELSE LET shorter == SeqsUpTo(S, n - 1)
         IN  shorter \cup {Append(q, x) : q \in {r \in shorter : Len(r) = n - 1}, x \in S}

-----------------------------------------------------------------------------
(* Text: a Python str is a sequence of one-character strings *)

UpperChars == <<"A", "B", "C", "D", "E", "F", "G", "H", "I", "J", "K", "L", "M", "N", "O", "P", "Q", "R", "S", "T", "U", "V", "W", "X", "Y", "Z">>

LowerChars == <<"a", "b", "c", "d", "e", "f", "g", "h", "i", "j", "k", "l", "m", "n", "o", "p", "q", "r", "s", "t", "u", "v", "w", "x", "y", "z">>

DigitChars == <<"0", "1", "2", "3", "4", "5", "6", "7", "8", "9">>

\* str.lower() of one character
LowerChar(c) ==
    IF \E i \in 1..Len(UpperChars) : UpperChars[i] = c
    THEN LowerChars[CHOOSE i \in 1..Len(UpperChars) : UpperChars[i] = c]
    ELSE c

\* str.lower()
Lower(s) == [i \in 1..Len(s) |-> LowerChar(s[i])]

IsDigit(c) == \E i \in 1..10 : DigitChars[i] = c

DigitVal(c) == (CHOOSE i \in 1..10 : DigitChars[i] = c) - 1

RECURSIVE LStrip(_)
LStrip(s) == IF s # <<>> /\ Head(s) = " " THEN LStrip(Tail(s)) ELSE s

RECURSIVE RStrip(_)
RStrip(s) ==
    IF s # <<>> /\ s[Len(s)] = " " THEN RStrip(SubSeq(s, 1, Len(s) - 1)) ELSE s

\* str.strip()
Strip(s) == RStrip(LStrip(s))

\* str.replace(c, "")
Remove(s, c) == SelectSeq(s, LAMBDA x : x # c)

\* sub in s
Contains(s, sub) ==
    \E i \in 1..(Len(s) - Len(sub) + 1) : SubSeq(s, i, i + Len(sub) - 1) = sub

RECURSIVE DigitsValue(_, _)
\* the number a run of decimal digits writes, after acc
DigitsValue(s, acc) ==
    IF s = <<>> THEN acc ELSE DigitsValue(Tail(s), 10 * acc + DigitVal(Head(s)))

RECURSIVE NatChars(_)
NatChars(n) ==
    IF n < 10 THEN <<DigitChars[n + 1]>>
    ELSE Append(NatChars(n \div 10), DigitChars[(n % 10) + 1])

\* str(n) of an int
IntChars(n) == IF n < 0 THEN <<"-">> \o NatChars(-n) ELSE NatChars(n)

\* the sign and the rest of a numeral
Unsigned(t) == IF t # <<>> /\ Head(t) \in {"-", "+"} THEN Tail(t) ELSE t
Signed(t, n) == IF t # <<>> /\ Head(t) = "-" THEN -n ELSE n

\* float(s): an optionally signed run of digits, or nan; anything else is a
\* ValueError, returned here as None.  The texts of the model use no decimal
\* point, exponent, underscore or "inf", which float() also reads.
ParseFloat(s) ==
    LET t == Strip(s)
        u == Unsigned(t)
    IN  IF u # <<>> /\ \A i \in 1..Len(u) : IsDigit(u[i])
        THEN Num(Signed(t, DigitsValue(u, 0)))
        ELSE IF Lower(u) = <<"n", "a", "n">> THEN NaN ELSE None

\* int(s): an optionally signed run of digits; anything else is a ValueError,
\* returned here as None
ParseInt(s) ==
    LET t == Strip(s)
        u == Unsigned(t)
    IN  IF u # <<>> /\ \A i \in 1..Len(u) : IsDigit(u[i])
        THEN Num(Signed(t, DigitsValue(u, 0)))
        ELSE None

-----------------------------------------------------------------------------
(* The field normalizer and the rules: state_incentives.py *)

\* a raw field of a fetched row: absent (None), a native number or a text
RawNone == [k |-> "none", v |-> 0, s |-> <<>>]
RawNum(n) == [k |-> "num", v |-> n, s |-> <<>>]
RawStr(s) == [k |-> "str", v |-> 0, s |-> s]

\* an exception leaving a function that returns an optional number
Raised == [k |-> "raise", v |-> 0]

MIN_CAPEX == 50000000
MIN_JOBS == 200
MAX_AGE_YEARS == 7

normalize_float(v) ==
    IF v.k = "none" THEN None
    ELSE IF v.k = "num" THEN Num(v.v)
    ELSE LET s == Remove(Remove(Strip(v.s), ","), "$")
         IN  IF s = <<>> THEN None ELSE ParseFloat(s)

\* int(round(f)) raises ValueError on nan
normalize_int(v) ==
    LET f == normalize_float(v)
    IN  IF f = None THEN None
        ELSE IF f = NaN THEN Raised
        ELSE f

normalize_year(v) ==
    IF v.k = "none" THEN None
    ELSE LET s == Strip(IF v.k = "num" THEN IntChars(v.v) ELSE v.s)
         IN  IF Len(s) >= 4 THEN ParseInt(SubSeq(s, 1, 4)) ELSE None

\* Python truth of an optional number: None and 0 are false, nan is true
Truthy(x) == ~(x = None \/ x = Num(0))

\* x >= n for an optional number that is not None: false on nan
AtLeast(x, n) == x.k = "num" /\ x.v >= n

passes_rules(capex_usd, jobs, year, now) ==
    IF Truthy(year) /\ now - year.v > MAX_AGE_YEARS
    THEN FALSE
    ELSE LET capex_good == capex_usd # None /\ AtLeast(capex_usd, MIN_CAPEX)
             jobs_good == jobs # None /\ AtLeast(jobs, MIN_JOBS)
         IN  capex_good \/ jobs_good

-----------------------------------------------------------------------------
(* Classification: state_incentives.py *)

\* the source adapters, in configuration order
STATE_SOURCES ==
    <<[state_code |-> "OH", format |-> "csv", has_sector |-> TRUE,
       default_type_id |-> "industrial_megaproject"],
      [state_code |-> "GA", format |-> "csv", has_sector |-> TRUE,
       default_type_id |-> "industrial_megaproject"],
      [state_code |-> "TX", format |-> "json", has_sector |-> TRUE,
       default_type_id |-> "industrial_megaproject"],
      [state_code |-> "TN", format |-> "csv", has_sector |-> TRUE,
       default_type_id |-> "industrial_megaproject"],
      [state_code |-> "IN", format |-> "csv", has_sector |-> TRUE,
       default_type_id |-> "industrial_megaproject"]>>

\* the keyword tests, in the order of the if statements
classify_type_id(sector, cfg) ==
    IF sector = <<>> THEN cfg.default_type_id
    ELSE LET s == Lower(sector)
         IN  IF Contains(s, <<"b", "a", "t", "t", "e", "r", "y">>) \/ Contains(s, <<"e", "v">>)
             THEN "ev_gigafactory"
             ELSE IF Contains(s, <<"a", "u", "t", "o">>)
             THEN "auto_assembly"
             ELSE IF Contains(s, <<"s", "e", "m", "i">>) \/ Contains(s, <<"c", "h", "i", "p">>)
             THEN "semiconductor_fab"
             ELSE IF \/ Contains(s, <<"l", "o", "g", "i", "s", "t", "i", "c">>)
                     \/ Contains(s, <<"d", "i", "s", "t", "r", "i", "b", "u", "t", "i", "o", "n">>)
                     \/ Contains(s, <<"f", "u", "l", "f", "i", "l", "l", "m", "e", "n", "t">>)
             THEN "logistics_hub"
             ELSE IF Contains(s, <<"d", "a", "t", "a", " ", "c", "e", "n", "t", "e", "r">>)
             THEN "data_center_cluster"
             ELSE IF \/ Contains(s, <<"h", "y", "d", "r", "o", "g", "e", "n">>)
                     \/ Contains(s, <<"s", "o", "l", "a", "r">>)
                     \/ Contains(s, <<"w", "i", "n", "d">>)
             THEN "energy_cluster"
             ELSE cfg.default_type_id

\* Pow10Tenths[k] is the least integer n with log10(n) >= k / 10
Pow10Tenths == 
    <<2, 2, 2, 3, 4, 4, 6, 7,
      8, 10, 13, 16, 20, 26, 32, 40,
      51, 64, 80, 100, 126, 159, 200, 252,
      317, 399, 502, 631, 795, 1000, 1259, 1585,
      1996, 2512, 3163, 3982, 5012, 6310, 7944, 10000,
      12590, 15849, 19953, 25119, 31623, 39811, 50119, 63096,
      79433, 100000, 125893, 158490, 199527, 251189, 316228, 398108,
      501188, 630958, 794329, 1000000, 1258926, 1584894, 1995263, 2511887,
      3162278, 3981072, 5011873, 6309574, 7943283, 10000000, 12589255, 15848932,
      19952624, 25118865, 31622777, 39810718, 50118724, 63095735, 79432824, 100000000,
      125892542, 158489320, 199526232, 251188644, 316227767, 398107171, 501187234, 630957345,
      794328235, 1000000000, 1258925412, 1584893193, 1995262315>>

\* floor(10 * math.log10(n)) for an integer n >= 1
Log10Tenths(n) == Cardinality({k \in 1..Len(Pow10Tenths) : Pow10Tenths[k] <= n})

\* the base radius of a type, in miles
BaseRadius(type_id) ==
    CASE type_id = "ev_gigafactory" -> 15
      [] type_id = "semiconductor_fab" -> 20
      [] type_id = "logistics_hub" -> 8
      [] type_id = "data_center_cluster" -> 20
      [] type_id = "energy_cluster" -> 25
      [] OTHER -> 10

\* the radius in thousandths of a mile; the scale is taken in tenths, rounded
\* down.  math.log10 raises ValueError on a number that is not positive and
\* returns nan on nan, and min(1.5, nan) is 1.5.
infer_radius_miles(type_id, capex_usd) ==
    LET base == BaseRadius(type_id)
    IN  IF Truthy(capex_usd)
        THEN IF capex_usd = NaN THEN Num(base * 15 * 100)
             ELSE IF capex_usd.v <= 0 THEN Raised
             ELSE Num(base * Max(7, Min(15, Log10Tenths(capex_usd.v) - 50)) * 100)
        ELSE Num(base * 1000)

\* the tier as a text, "None" for no tier
recency_tier_from_year(year, now) ==
    IF ~Truthy(year) THEN "None"
    ELSE LET age == now - year.v
         IN  IF age <= 1 THEN "A"
             ELSE IF age <= 3 THEN "B"
             ELSE IF age <= 5 THEN "C"
             ELSE "D"

\* datetime(year, 1, 1).isoformat() + "Z": the year of the date written, or
\* a ValueError for a year outside 1..9999
announced_at_of(year) ==
    IF ~Truthy(year) THEN None
    ELSE IF year.v < 1 \/ year.v > 9999 THEN Raised
    ELSE Num(year.v)

-----------------------------------------------------------------------------
(* The ingestion pipeline: state_incentives.py *)

\* the years the clock may show
NowYears == {2024, 2026}

\* a fetched row, read through the adapter's field names: r.get(cfg.capex_field)
\* is r.capex, and so on.  Latitudes and longitudes are in tenths of a degree.
RawRow(capex, jobs, year, lat, lng, name, sector) ==
    [capex |-> capex, jobs |-> jobs, year |-> year, lat |-> lat, lng |-> lng,
     name |-> name, sector |-> sector]

\* str(r.get(field) or "").strip() of a text field
TextOf(v) == IF v.k = "str" THEN Strip(v.s) ELSE <<>>

NoRow == [out |-> "drop"]

\* the body of the loop of load_state_source for one row: the row is dropped
\* (continue), appended as a candidate, or an exception leaves the loop
process_row(r, cfg, now) ==
    LET capex == normalize_float(r.capex)
        jobs == normalize_int(r.jobs)
        year == normalize_year(r.year)
        lat == normalize_float(r.lat)
        lng == normalize_float(r.lng)
    IN  IF jobs = Raised THEN [out |-> "raise", row |-> NoRow]
        ELSE IF lat = None \/ lng = None THEN [out |-> "drop", row |-> NoRow]
        ELSE IF ~passes_rules(capex, jobs, year, now) THEN [out |-> "drop", row |-> NoRow]
        ELSE LET type_id == classify_type_id(TextOf(r.sector), cfg)
                 radius == infer_radius_miles(type_id, capex)
             IN  IF radius = Raised \/ announced_at_of(year) = Raised
                 THEN [out |-> "raise", row |-> NoRow]
                 ELSE [out |-> "emit",
                       row |-> [name |-> IF TextOf(r.name) = <<>>
                                         THEN <<cfg.state_code, " Project">>
                                         ELSE TextOf(r.name),
                                state |-> cfg.state_code, type |-> type_id,
                                lat |-> lat, lng |-> lng,
                                radius_miles |-> radius.v, capex_usd |-> capex,
                                jobs_estimated |-> jobs,
                                recency_tier |-> recency_tier_from_year(year, now),
                                announced_at |-> announced_at_of(year)]]

RECURSIVE LoopRows(_, _, _, _)
\* the for loop over the fetched rows, from the candidates so far
LoopRows(rows, cfg, now, catalysts) ==
    IF rows = <<>> THEN [raised |-> FALSE, rows |-> catalysts]
    ELSE LET res == process_row(Head(rows), cfg, now)
         IN  IF res.out = "raise" THEN [raised |-> TRUE, rows |-> <<>>]
             ELSE LoopRows(Tail(rows), cfg, now,
                           IF res.out = "emit" THEN Append(catalysts, res.row)
                           ELSE catalysts)

\* what an adapter's endpoint answers: a failure of the request or of the
\* decoding (fetch |-> "error"), or the rows
FetchError == [fetch |-> "error", rows |-> <<>>]
Fetched(rows) == [fetch |-> "ok", rows |-> rows]

\* load_state_source(cfg): the candidates, or an exception (raised)
load_state_source(cfg, feed, now) ==
    IF feed.fetch = "error" THEN [raised |-> TRUE, rows |-> <<>>]
    ELSE LoopRows(feed.rows, cfg, now, <<>>)

\* the loop body of load_all_state_incentives without its try: the adapter's
\* exception leaves the function
load_one_no_try(all_rows, cfg, feed, now) ==
    LET res == load_state_source(cfg, feed, now)
    IN  IF res.raised THEN [raised |-> TRUE, all_rows |-> all_rows]
        ELSE [raised |-> FALSE, all_rows |-> all_rows \o res.rows]

\* the loop body of load_all_state_incentives for one adapter: try the load
\* and extend all_rows, except Exception: print
load_one(all_rows, cfg, feed, now) ==
    LET res == load_state_source(cfg, feed, now)
    IN  IF res.raised THEN [raised |-> FALSE, all_rows |-> all_rows]
        ELSE [raised |-> FALSE, all_rows |-> all_rows \o res.rows]

\* the raw values of the evidence fields the model feeds
CapexValues ==
    {RawNone, RawStr(<<"a", "b", "c">>), RawStr(<<"-", "1">>), RawNum(500000),
     RawStr(<<"$", "6", "0", ",", "0", "0", "0", ",", "0", "0", "0">>)}
JobsValues == {RawNone, RawStr(<<"3", "0", "0">>), RawStr(<<"n", "a", "n">>)}
YearValues == {RawNone, RawStr(<<"2", "0", "2", "4">>), RawStr(<<"2", "0", "1", "0">>)}
LatValues == {RawStr(<<>>), RawStr(<<"4", "0", "1">>)}

RawRows ==
    {RawRow(c, j, y, lat, RawStr(<<"-", "8", "3", "0">>), RawStr(<<"P">>),
            RawStr(<<"E", "V", " ", "B", "a", "t", "t", "e", "r", "y">>)) :
        c \in CapexValues, j \in JobsValues, y \in YearValues, lat \in LatValues}

\* the most rows one answer of an endpoint holds
MaxRows == 2

SrcIdle == [pc |-> "idle", cfg |-> 0, n |-> 0, catalysts |-> <<>>, cause |-> "none"]

\* load_state_source(cfg) is called and fetches: the request or the decoding
\* raises, or the rows are there
CallLoadStateSource(c, fetch) ==
    /\ src.pc = "idle"
    /\ src' = IF fetch = "error"
              THEN [pc |-> "raised", cfg |-> c, n |-> 0, catalysts |-> <<>>,
                    cause |-> "fetch"]
              ELSE [pc |-> "loop", cfg |-> c, n |-> 0, catalysts |-> <<>>,
                    cause |-> "none"]
    /\ UNCHANGED <<now_year, ing>>

\* one turn of the loop, on the next fetched row
ProcessRow(r) ==
    /\ src.pc = "loop"
    /\ src.n < MaxRows
    /\ LET res == process_row(r, STATE_SOURCES[src.cfg], now_year)
       IN  src' = IF res.out = "raise"
                  THEN [src EXCEPT !.pc = "raised", !.n = src.n + 1, !.cause = "row"]
                  ELSE [src EXCEPT !.n = src.n + 1,
                                   !.catalysts = IF res.out = "emit"
                                                 THEN Append(src.catalysts, res.row)
                                                 ELSE src.catalysts]
    /\ UNCHANGED <<now_year, ing>>

\* the rows are exhausted: return catalysts
ReturnSource ==
    /\ src.pc = "loop"
    /\ src' = [src EXCEPT !.pc = "returned"]
    /\ UNCHANGED <<now_year, ing>>

\* a good row, a row with a negative capex, a row without a latitude
GoodRow ==
    RawRow(RawStr(<<"$", "6", "0", ",", "0", "0", "0", ",", "0", "0", "0">>), RawNone, RawStr(<<"2", "0", "2", "4">>),
           RawStr(<<"4", "0", "1">>), RawStr(<<"-", "8", "3", "0">>),
           RawStr(<<"P">>), RawStr(<<"S", "e", "m", "i", "c", "o", "n", "d", "u", "c", "t", "o", "r">>))
NegativeCapexRow == [GoodRow EXCEPT !.capex = RawStr(<<"-", "1">>),
                                    !.jobs = RawNum(300)]
NoLatRow == [GoodRow EXCEPT !.lat = RawNone]

\* the answers the adapters get while load_all_state_incentives runs
SampleFeeds ==
    {FetchError, Fetched(<<>>), Fetched(<<GoodRow>>),
     Fetched(<<GoodRow, NegativeCapexRow>>), Fetched(<<NoLatRow, GoodRow>>)}

IngIdle == [pc |-> "idle", i |-> 0, all_rows |-> <<>>, feeds |-> <<>>]

\* load_all_state_incentives() is called
StartLoadAll ==
    /\ ing.pc = "idle"
    /\ ing' = [pc |-> "loop", i |-> 1, all_rows |-> <<>>, feeds |-> <<>>]
    /\ UNCHANGED <<now_year, src>>

\* one turn of its loop over STATE_SOURCES
LoadNextSource(feed) ==
    /\ ing.pc = "loop"
    /\ ing.i <= Len(STATE_SOURCES)
    /\ LET res == load_one(ing.all_rows, STATE_SOURCES[ing.i], feed, now_year)
       IN  ing' = [pc |-> IF res.raised THEN "raised" ELSE "loop",
                   i |-> ing.i + 1,
                   all_rows |-> res.all_rows,
                   feeds |-> Append(ing.feeds, feed)]
    /\ UNCHANGED <<now_year, src>>

\* return all_rows
ReturnAll ==
    /\ ing.pc = "loop"
    /\ ing.i > Len(STATE_SOURCES)
    /\ ing' = [ing EXCEPT !.pc = "returned"]
    /\ UNCHANGED <<now_year, src>>

-----------------------------------------------------------------------------
(* The upsert reconciler: import_catalysts.py *)

\* the executions of upsert_catalysts that may run against the one table
Procs == {1, 2}

\* the longest batch one run is given
MaxBatch == 2

\* the columns of a candidate row (make_catalyst, load_state_source)
RowColumns ==
    {"name", "state", "type", "lat", "lng", "radius_miles", "capex_usd",
     "jobs_estimated", "recency_tier", "announced_at"}

\* a candidate row
Row(name, state, type, radius, capex, jobs) ==
    [name |-> name, state |-> state, type |-> type, lat |-> 400, lng |-> -830,
     radius_miles |-> radius, capex_usd |-> capex, jobs_estimated |-> jobs,
     recency_tier |-> "B", announced_at |-> Num(2024)]

\* the business keys of the candidate rows: each differs from the first in
\* exactly one of name, state and type
Keys ==
    {<<"Plant", "OH", "ev_gigafactory">>, <<"Depot", "OH", "ev_gigafactory">>,
     <<"Plant", "GA", "ev_gigafactory">>, <<"Plant", "OH", "logistics_hub">>}

\* one row per key, and a second row for the first key that differs from its
\* first row in every evidence column
Rows ==
    {Row(k[1], k[2], k[3], 15000, Num(60000000), None) : k \in Keys}
    \cup {Row("Plant", "OH", "ev_gigafactory", 8000, None, Num(300))}

Batches == SeqsUpTo(Rows, MaxBatch)

KeyOf(r) == <<r.name, r.state, r.type>>

\* a stored record without its id, as a candidate row
FieldsOf(rec) == [c \in RowColumns |-> rec[c]]

\* a stored record: the row's columns and the table's id
Stored(id, row) == [c \in RowColumns \cup {"id"} |-> IF c = "id" THEN id ELSE row[c]]

RECURSIVE MatchingIds(_, _, _, _)
\* the ids of the records of tbl matching all three columns, in table order
MatchingIds(tbl, name, state, type) ==
    IF tbl = <<>> THEN <<>>
    ELSE LET h == Head(tbl)
             rest == MatchingIds(Tail(tbl), name, state, type)
         IN  IF h.name = name /\ h.state = state /\ h.type = type
             THEN <<h.id>> \o rest
             ELSE rest

\* a lookup whose third filter compares the type column with the state
select_ids_wrong_column(tbl, name, state, type) == MatchingIds(tbl, name, state, state)

\* supabase.table("catalysts").select("id").eq(name).eq(state).eq(type).execute()
select_ids(tbl, name, state, type) == MatchingIds(tbl, name, state, type)

\* an update that writes the columns that are not None only (a merge)
db_update_merge(tbl, id, row) ==
    [i \in 1..Len(tbl) |->
        IF tbl[i].id = id
        THEN [c \in DOMAIN tbl[i] |->
                IF c \in RowColumns /\ ~(c \in {"capex_usd", "jobs_estimated"} /\ row[c] = None)
                THEN row[c]
                ELSE tbl[i][c]]
        ELSE tbl[i]]

\* supabase.table("catalysts").update(row).eq("id", catalyst_id).execute()
db_update(tbl, id, row) ==
    [i \in 1..Len(tbl) |-> IF tbl[i].id = id THEN Stored(id, row) ELSE tbl[i]]

\* supabase.table("catalysts").insert(row).execute()
db_insert(tbl, id, row) == Append(tbl, Stored(id, row))

Idle == [pc |-> "idle", rows |-> <<>>, i |-> 0, existing |-> <<>>, ops |-> <<>>,
         before |-> <<>>]

\* upsert_catalysts(rows) is called; an empty batch returns at once.  hist
\* keeps the previous run only while the same batch is run again.
StartRun(p, rows) ==
    /\ run[p].pc = "idle"
    /\ LET kept == IF hist # <<>> /\ hist[Len(hist)].rows = rows
                   THEN <<hist[Len(hist)]>> ELSE <<>>
       IN  IF rows = <<>>
           THEN /\ run' = run
                /\ hist' = IF p = 1
                           THEN Append(kept, [rows |-> rows, before |-> store,
                                              after |-> store, ops |-> <<>>])
                           ELSE hist
           ELSE /\ run' = [run EXCEPT ![p] =
                            [pc |-> "find", rows |-> rows, i |-> 1,
                             existing |-> <<>>, ops |-> <<>>, before |-> store]]
                /\ hist' = IF p = 1 THEN kept ELSE hist
    /\ UNCHANGED <<store, nextId>>

\* the select of the current row
Find(p) ==
    /\ run[p].pc = "find"
    /\ LET row == run[p].rows[run[p].i]
       IN  run' = [run EXCEPT ![p].pc = "write",
                              ![p].existing =
                                  select_ids(store, row.name, row.state, row.type)]
    /\ UNCHANGED <<store, nextId, hist>>

\* the update or the insert of the current row, then the next row or the return
Write(p) ==
    /\ run[p].pc = "write"
    /\ LET r == run[p]
           row == r.rows[r.i]
           found == r.existing # <<>>
           tbl == IF found THEN db_update(store, r.existing[1], row)
                  ELSE db_insert(store, nextId, row)
           ops == Append(r.ops, IF found THEN "update" ELSE "insert")
           done == r.i = Len(r.rows)
           rec == [rows |-> r.rows, before |-> r.before, after |-> tbl, ops |-> ops]
       IN  /\ store' = tbl
           /\ nextId' = IF found THEN nextId ELSE nextId + 1
           /\ run' = [run EXCEPT ![p] =
                        IF done THEN Idle
                        ELSE [r EXCEPT !.pc = "find", !.i = r.i + 1,
                                       !.existing = <<>>, !.ops = ops]]
           /\ hist' = IF done /\ p = 1 THEN Append(hist, rec) ELSE hist

-----------------------------------------------------------------------------
(* The radial decay and the aggregator: catalyst_impact.py *)

\* one tenth of a degree of latitude in thousandths of a mile:
\* 6371 km * 0.621371 * pi / 180 is 69.0933 miles a degree
MilliMilesPerTenthDegree == 6909

Abs(n) == IF n < 0 THEN -n ELSE n

\* the great-circle distance in thousandths of a mile, angles in tenths of a
\* degree.  The points of the model lie on one meridian (lon1 = lon2), where
\* a is sin(d_lat / 2) ** 2 and the distance is the arc R * |d_lat|.
haversine_miles(lat1, lon1, lat2, lon2) == Abs(lat2 - lat1) * MilliMilesPerTenthDegree

\* ExpInt[n + 1] is exp(-n) in millionths
ExpInt == <<1000000, 367879, 135335, 49787, 18316, 6738, 2479, 912, 335, 123, 45,
            17, 6, 2, 1>>

RECURSIVE ExpTaylor(_, _, _, _)
\* the series of exp(-f / 1000) in millionths from its j-th term on, for
\* 0 <= f < 1000; term is the size of the term before
ExpTaylor(f, j, term, acc) ==
    IF j > 12 \/ term = 0 THEN acc
    ELSE LET t == (term * f) \div (1000 * j)
         IN  ExpTaylor(f, j + 1, t, IF j % 2 = 1 THEN acc - t ELSE acc + t)

\* math.exp(-x / 1000) in ten-thousandths, for x >= 0.  A float exp
\* underflows to 0.0 beyond 745; a smaller positive value is never written
\* as 0 here, because the aggregator tests w <= 0.
ExpNeg(x) ==
    IF x > 745000 THEN 0
    ELSE IF x \div 1000 >= Len(ExpInt) THEN 1
    ELSE Max(1, ((ExpInt[(x \div 1000) + 1] \div 10)
                  * (ExpTaylor(x % 1000, 1, 1000000, 1000000) \div 100)) \div 100000)

\* the radial function testing the cutoff before the plateau
impact_weight_cutoff_first(distance_miles, r_peak, r_max, k) ==
    IF distance_miles >= r_max THEN 0
    ELSE IF distance_miles <= r_peak THEN 10000
    ELSE IF k <= 0 THEN 0
    ELSE ExpNeg(((distance_miles - r_peak) * 1000) \div k)

\* the radial function with a tail that decays from the max radius inwards
impact_weight_mirrored_tail(distance_miles, r_peak, r_max, k) ==
    IF distance_miles <= r_peak THEN 10000
    ELSE IF distance_miles >= r_max THEN 0
    ELSE IF k <= 0 THEN 0
    ELSE ExpNeg(((r_max - distance_miles) * 1000) \div k)

\* the weight in ten-thousandths; distances and k in thousandths of a mile.
\* max(k, 1e-6) of a k that is not positive divides a distance of at least
\* a thousandth of a mile by 1e-6, and exp underflows to 0.0.
impact_weight(distance_miles, r_peak, r_max, k) ==
    IF distance_miles <= r_peak THEN 10000
    ELSE IF distance_miles >= r_max THEN 0
    ELSE IF k <= 0 THEN 0
    ELSE ExpNeg(((distance_miles - r_peak) * 1000) \div k)

Profile(r_peak, r_max, decay_k, base_strength) ==
    [r_peak_miles |-> r_peak, r_max_miles |-> r_max, decay_k_miles |-> decay_k,
     base_strength |-> base_strength]

CatalogTypeIds ==
    {"ev_gigafactory", "auto_tier1", "semiconductor_fab", "logistics_hub",
     "fulfillment_center", "port", "rail_terminal", "airport", "power_plant",
     "government_complex", "university_cluster", "data_center_cluster"}

\* the type catalog: radii and k in thousandths of a mile, strength in hundredths
CATALYST_TYPES ==
    [t \in CatalogTypeIds |->
        CASE t = "ev_gigafactory" -> Profile(10000, 60000, 8000, 100)
          [] t = "auto_tier1" -> Profile(5000, 20000, 4000, 80)
          [] t = "semiconductor_fab" -> Profile(15000, 70000, 10000, 110)
          [] t = "logistics_hub" -> Profile(4000, 15000, 3000, 90)
          [] t = "fulfillment_center" -> Profile(5000, 20000, 4000, 70)
          [] t = "port" -> Profile(10000, 50000, 8000, 100)
          [] t = "rail_terminal" -> Profile(6000, 25000, 5000, 80)
          [] t = "airport" -> Profile(8000, 35000, 6000, 90)
          [] t = "power_plant" -> Profile(5000, 25000, 4000, 90)
          [] t = "government_complex" -> Profile(3000, 15000, 3000, 70)
          [] t = "university_cluster" -> Profile(5000, 25000, 5000, 85)
          [] t = "data_center_cluster" -> Profile(3000, 12000, 2500, 80)]

\* the fields of the dataclass CatalystInstance
CatalystInstanceFields == {"id", "type_id", "name", "lat", "lng"}

\* what a call returns: a float in ten-thousandths, or the exception raised
Returned(value) == [status |-> "ok", value |-> value]
Raises(exc) == [status |-> exc, value |-> 0]

\* the weight of catalyst c at the parcel, in ten-thousandths
WeightAt(parcel_lat, parcel_lng, c) ==
    LET profile == CATALYST_TYPES[c.type_id]
    IN  impact_weight(haversine_miles(parcel_lat, parcel_lng, c.lat, c.lng),
                      profile.r_peak_miles, profile.r_max_miles,
                      profile.decay_k_miles)

RECURSIVE Accumulate(_, _, _, _, _, _)
\* the for loop of the aggregator: total in millionths (weight * strength),
\* strength_sum in hundredths.  A catalyst whose type is not in the catalog
\* is skipped; one whose weight is not positive is skipped if skip_zero.
Accumulate(parcel_lat, parcel_lng, catalysts, total, strength_sum, skip_zero) ==
    IF catalysts = <<>> THEN [total |-> total, strength_sum |-> strength_sum]
    ELSE LET c == Head(catalysts)
             rest == Tail(catalysts)
         IN  IF c.type_id \notin DOMAIN CATALYST_TYPES
             THEN Accumulate(parcel_lat, parcel_lng, rest, total, strength_sum, skip_zero)
             ELSE LET w == WeightAt(parcel_lat, parcel_lng, c)
                      s == CATALYST_TYPES[c.type_id].base_strength
                  IN  IF skip_zero /\ w <= 0
                      THEN Accumulate(parcel_lat, parcel_lng, rest, total,
                                      strength_sum, skip_zero)
                      ELSE Accumulate(parcel_lat, parcel_lng, rest, total + w * s,
                                      strength_sum + s, skip_zero)

\* an aggregator that adds the strength of a catalyst of weight 0 to the sum
compute_counting_zero_weight(parcel_lat, parcel_lng, catalysts) ==
    IF catalysts = <<>> THEN Returned(0)
    ELSE LET acc == Accumulate(parcel_lat, parcel_lng, catalysts, 0, 0, FALSE)
         IN  IF acc.strength_sum = 0 THEN Returned(0)
             ELSE Returned(Max(0, Min(acc.total \div acc.strength_sum, 15000)))

\* an aggregator that returns the total, neither normalized nor clamped
compute_returning_total(parcel_lat, parcel_lng, catalysts) ==
    IF catalysts = <<>> THEN Returned(0)
    ELSE LET acc == Accumulate(parcel_lat, parcel_lng, catalysts, 0, 0, TRUE)
         IN  IF acc.strength_sum = 0 THEN Returned(0)
             ELSE Returned(acc.total \div 100)

\* an aggregator without the test of strength_sum == 0
compute_without_zero_test(parcel_lat, parcel_lng, catalysts) ==
    IF catalysts = <<>> THEN Returned(0)
    ELSE LET acc == Accumulate(parcel_lat, parcel_lng, catalysts, 0, 0, TRUE)
         IN  IF acc.strength_sum = 0 THEN Raises("ZeroDivisionError")
             ELSE Returned(Max(0, Min(acc.total \div acc.strength_sum, 15000)))

\* the score in ten-thousandths
compute_catalyst_score_for_parcel(parcel_lat, parcel_lng, catalysts) ==
    IF catalysts = <<>> THEN Returned(0)
    ELSE LET acc == Accumulate(parcel_lat, parcel_lng, catalysts, 0, 0, TRUE)
         IN  IF acc.strength_sum = 0 THEN Returned(0)
             ELSE Returned(Max(0, Min(acc.total \div acc.strength_sum, 15000)))

-----------------------------------------------------------------------------
(* The catalyst loader and the scoring endpoint: main.py *)

\* the profile main.py derives from a stored row: radii and k in thousandths
\* of a mile, strength in hundredths (math.log10 taken in tenths, rounded down)
DerivedProfile(row) ==
    LET radius == IF row.radius_miles = 0 THEN 10000 ELSE row.radius_miles
        capex == IF Truthy(row.capex_usd) THEN row.capex_usd ELSE Num(0)
        jobs == IF Truthy(row.jobs_estimated) THEN row.jobs_estimated ELSE Num(0)
    IN  Profile(radius, (radius * 25) \div 10, Max(1000, radius \div 3),
                IF capex.k = "num" /\ capex.v > 0
                THEN Max(50, Log10Tenths(capex.v) * 10)
                ELSE IF jobs.k = "num" /\ jobs.v > 0
                THEN Max(50, (jobs.v * 100) \div 500)
                ELSE 100)

\* the keyword arguments main.py passes to CatalystInstance for a stored row
InstanceArgs(row) ==
    LET p == DerivedProfile(row)
    IN  [id |-> row.id, type_id |-> row.type, name |-> row.name, lat |-> row.lat,
         lng |-> row.lng, r_peak_miles |-> p.r_peak_miles,
         r_max_miles |-> p.r_max_miles, decay_k_miles |-> p.decay_k_miles,
         base_strength |-> p.base_strength]

\* the generated __init__ of the dataclass: a keyword that is no field, or a
\* field without its argument, is a TypeError
NewCatalystInstance(kwargs) == DOMAIN kwargs = CatalystInstanceFields

RECURSIVE LoadRows(_, _)
\* the for loop of load_catalysts_from_supabase, from the instances so far
LoadRows(rows, catalysts) ==
    IF rows = <<>> THEN [status |-> "ok", catalysts |-> catalysts]
    ELSE IF ~NewCatalystInstance(InstanceArgs(Head(rows)))
    THEN [status |-> "TypeError", catalysts |-> <<>>]
    ELSE LoadRows(Tail(rows), Append(catalysts, InstanceArgs(Head(rows))))

load_catalysts_from_supabase(tbl) == LoadRows(tbl, <<>>)

\* no pure function has been called
NoCall == [fn |-> "none", args |-> <<>>, result |-> 0]

NotLoaded == [status |-> "not_loaded", catalysts |-> <<>>]
NotScored == [pc |-> "idle", lat |-> 0, lng |-> 0, result |-> Returned(0)]

\* the module is imported: CATALYSTS = load_catalysts_from_supabase().  The
\* table is read between two runs of the reconciler.
LoadCatalysts ==
    /\ loaded.status = "not_loaded"
    /\ run[1].pc = "idle"
    /\ loaded' = load_catalysts_from_supabase(store)
    /\ UNCHANGED <<upsertVars, ingestVars, scored, callVars>>

\* POST /score, once the module is imported: the catalyst term of the answer
ScoreProperty(lat, lng) ==
    /\ loaded.status = "ok"
    /\ scored.pc = "idle"
    /\ scored' = [pc |-> "done", lat |-> lat, lng |-> lng,
                  result |-> compute_catalyst_score_for_parcel(lat, lng,
                                                               loaded.catalysts)]
    /\ UNCHANGED <<upsertVars, ingestVars, loaded, callVars>>

\* the most catalysts the aggregator is given
MaxCatalysts == 2

\* the meridian of the model's points, and their latitudes, in tenths of a
\* degree: 6.9, 96.7 and 103.6 miles apart
Meridian == -830
CatalystLats == {400, 401, 415}
QueryLats == {400, 401}

\* the catalog's types and one type that is not in it
InstanceTypeIds == CatalogTypeIds \cup {"industrial_megaproject"}

CatalystInstances ==
    {[id |-> 1, type_id |-> t, name |-> "c", lat |-> la, lng |-> Meridian] :
        t \in InstanceTypeIds, la \in CatalystLats}

\* the aggregator given any list of catalysts
InitScore ==
    /\ store = <<>>
    /\ nextId = 1
    /\ run = [p \in Procs |-> Idle]
    /\ hist = <<>>
    /\ started = {}
    /\ now_year = CHOOSE y \in NowYears : TRUE
    /\ src = SrcIdle
    /\ ing = IngIdle
    /\ loaded \in {[status |-> "ok", catalysts |-> cs] :
                      cs \in SeqsUpTo(CatalystInstances, MaxCatalysts)}
    /\ scored = NotScored
    /\ call = NoCall

NextScore == \E lat \in QueryLats : ScoreProperty(lat, Meridian)

SpecScore == InitScore /\ [][NextScore]_vars

Init ==
    /\ store = <<>>
    /\ nextId = 1
    /\ run = [p \in Procs |-> Idle]
    /\ hist = <<>>
    /\ started = {}
    /\ now_year = CHOOSE y \in NowYears : TRUE
    /\ src = SrcIdle
    /\ ing = IngIdle
    /\ loaded = NotLoaded
    /\ scored = NotScored
    /\ call = NoCall

\* one execution at a time: the reference model of the reconciler
Next ==
    \/ \E rows \in Batches : StartRun(1, rows) /\ UNCHANGED <<started, ingestVars, scoreVars, callVars>>
    \/ Find(1) /\ UNCHANGED <<started, ingestVars, scoreVars, callVars>>
    \/ Write(1) /\ UNCHANGED <<started, ingestVars, scoreVars, callVars>>

Spec == Init /\ [][Next]_vars

\* the batches of the interleaved executions: both rows of the first key, and
\* one row of another key
RaceRows == {r \in Rows : r.state = "OH" /\ r.type = "ev_gigafactory"}

RaceBatches == SeqsUpTo(RaceRows, MaxBatch)

\* two executions against the one table, their selects and writes interleaved
\* each execution runs once
NextRace ==
    \/ \E p \in Procs \ started, rows \in RaceBatches :
          StartRun(p, rows) /\ started' = started \cup {p}
          /\ UNCHANGED <<ingestVars, scoreVars, callVars>>
    \/ \E p \in Procs : Find(p) /\ UNCHANGED <<started, ingestVars, scoreVars, callVars>>
    \/ \E p \in Procs : Write(p) /\ UNCHANGED <<started, ingestVars, scoreVars, callVars>>

SpecRace == Init /\ [][NextRace]_vars

\* the reconciler, then the start of the scoring service and its requests
NextLoad ==
    \/ \E rows \in Batches : StartRun(1, rows) /\ UNCHANGED <<started, ingestVars, scoreVars, callVars>>
    \/ Find(1) /\ UNCHANGED <<started, ingestVars, scoreVars, callVars>>
    \/ Write(1) /\ UNCHANGED <<started, ingestVars, scoreVars, callVars>>
    \/ LoadCatalysts
    \/ \E lat \in QueryLats : ScoreProperty(lat, Meridian)

SpecLoad == Init /\ [][NextLoad]_vars

\* the pipeline before it runs, at any of the years
InitIngest ==
    /\ store = <<>>
    /\ nextId = 1
    /\ run = [p \in Procs |-> Idle]
    /\ hist = <<>>
    /\ started = {}
    /\ now_year \in NowYears
    /\ src = SrcIdle
    /\ ing = IngIdle
    /\ loaded = NotLoaded
    /\ scored = NotScored
    /\ call = NoCall

\* load_state_source of any adapter on any rows
NextSource ==
    \/ \E c \in 1..Len(STATE_SOURCES), fetch \in {"ok", "error"} :
          CallLoadStateSource(c, fetch) /\ UNCHANGED <<upsertVars, scoreVars, callVars>>
    \/ \E r \in RawRows : ProcessRow(r) /\ UNCHANGED <<upsertVars, scoreVars, callVars>>
    \/ ReturnSource /\ UNCHANGED <<upsertVars, scoreVars, callVars>>

SpecSource == InitIngest /\ [][NextSource]_vars

\* load_all_state_incentives over the adapters
NextIngest ==
    \/ StartLoadAll /\ UNCHANGED <<upsertVars, scoreVars, callVars>>
    \/ \E feed \in SampleFeeds : LoadNextSource(feed) /\ UNCHANGED <<upsertVars, scoreVars, callVars>>
    \/ ReturnAll /\ UNCHANGED <<upsertVars, scoreVars, callVars>>

SpecIngest == InitIngest /\ [][NextIngest]_vars

-----------------------------------------------------------------------------
(* The reconciler's claims *)

LastRun == hist[Len(hist)]

KeysOfBatch(rows) == {KeyOf(rows[i]) : i \in 1..Len(rows)}

\* the records of tbl with key k
WithKey(tbl, k) == {i \in 1..Len(tbl) : KeyOf(tbl[i]) = k}

\* the last row of the batch that carries key k
LastRowFor(rows, k) ==
    rows[CHOOSE i \in 1..Len(rows) :
            /\ KeyOf(rows[i]) = k
            /\ \A j \in (i + 1)..Len(rows) : KeyOf(rows[j]) # k]

OnePerKey(tbl) == \A i, j \in 1..Len(tbl) : KeyOf(tbl[i]) = KeyOf(tbl[j]) => i = j

\* C1: the same single row reconciled twice against an empty table is one
\* insert, then one update, and the table ends with one record for the key
\* whose columns after the second run are those after the first.
C1_Idempotent ==
    (Len(hist) = 2 /\ hist[1].before = <<>> /\ Len(hist[1].rows) = 1) =>
        /\ hist[1].ops = <<"insert">>
        /\ hist[2].ops = <<"update">>
        /\ hist[2].before = hist[1].after
        /\ Len(hist[2].after) = 1
        /\ KeyOf(hist[2].after[1]) = KeyOf(hist[1].rows[1])
        /\ hist[2].after = hist[1].after
        /\ FieldsOf(hist[2].after[1]) = hist[1].rows[1]

C1_Witness ==
    /\ Len(hist) = 2
    /\ hist[1].before = <<>>
    /\ Len(hist[1].rows) = 1
    /\ hist[2].ops = <<"update">>
    /\ run[1].pc = "idle"

\* C2: after one sequential run over a table with at most one record per key,
\* every key of the batch has exactly one record, holding the columns of the
\* last batch row with that key, under the id the key had before the run if it
\* had one; the records of the other keys are unchanged.
C2_LastWriterWins ==
    (hist # <<>> /\ OnePerKey(LastRun.before)) =>
        LET r == LastRun
        IN  /\ \A k \in KeysOfBatch(r.rows) :
                  /\ Cardinality(WithKey(r.after, k)) = 1
                  /\ \A i \in WithKey(r.after, k) :
                        /\ FieldsOf(r.after[i]) = LastRowFor(r.rows, k)
                        /\ \A j \in WithKey(r.before, k) :
                              r.after[i].id = r.before[j].id
            /\ \A j \in 1..Len(r.before) :
                  KeyOf(r.before[j]) \notin KeysOfBatch(r.rows) =>
                      r.after[j] = r.before[j]
            /\ \A i \in 1..Len(r.after) :
                  KeyOf(r.after[i]) \notin KeysOfBatch(r.rows) =>
                      i <= Len(r.before) /\ r.after[i] = r.before[i]

\* a run whose batch repeats a stored key with two different rows, over a
\* table that also holds a key the batch does not carry
C2_Witness ==
    /\ hist # <<>>
    /\ run[1].pc = "idle"
    /\ Len(LastRun.rows) = 2
    /\ KeyOf(LastRun.rows[1]) = KeyOf(LastRun.rows[2])
    /\ LastRun.rows[1] # LastRun.rows[2]
    /\ WithKey(LastRun.before, KeyOf(LastRun.rows[1])) # {}
    /\ \E j \in 1..Len(LastRun.before) :
          KeyOf(LastRun.before[j]) \notin KeysOfBatch(LastRun.rows)

\* C3: whatever the interleaving of two executions, the table never holds
\* two records with the same (name, state, type) key.
C3_NoDuplicateKey == OnePerKey(store)

-----------------------------------------------------------------------------
(* The ingestion pipeline's claims *)

RECURSIVE ExpectedRows(_, _, _)
\* the candidates of the adapters from the i-th on that did not fail, in
\* configuration order
ExpectedRows(feeds, i, now) ==
    IF i > Len(feeds) THEN <<>>
    ELSE LET res == load_state_source(STATE_SOURCES[i], feeds[i], now)
         IN  (IF res.raised THEN <<>> ELSE res.rows) \o ExpectedRows(feeds, i + 1, now)

\* C4: load_all_state_incentives never raises, and what it has gathered, and
\* returns, is the concatenation in configuration order of the candidates of
\* the adapters whose load did not fail, whichever adapters fail.
C4_FailedAdapterSkipped ==
    /\ ing.pc # "raised"
    /\ ing.pc \in {"loop", "returned"} =>
          ing.all_rows = ExpectedRows(ing.feeds, 1, now_year)
    /\ ing.pc = "returned" => Len(ing.feeds) = Len(STATE_SOURCES)

\* a return after the second adapter failed in its fetch and the third on a
\* row, with the candidates of the first and of the fourth
C4_Witness ==
    /\ ing.pc = "returned"
    /\ ing.feeds = <<Fetched(<<GoodRow>>), FetchError,
                     Fetched(<<GoodRow, NegativeCapexRow>>),
                     Fetched(<<NoLatRow, GoodRow>>), Fetched(<<>>)>>
    /\ Len(ing.all_rows) = 2
    /\ ing.all_rows[1].state = "OH"
    /\ ing.all_rows[2].state = "TN"

\* C5: whatever the capex, jobs, year, lat and lng of a fetched row, the loop
\* of load_state_source emits it or drops it and goes on: once the fetch has
\* succeeded, load_state_source does not raise.
C5_RowNeverRaises == src.pc = "raised" => src.cause = "fetch"

-----------------------------------------------------------------------------
(* The loader's and the aggregator's claims *)

\* the profile the aggregator applies to a loaded catalyst: the catalog's
\* entry for its type, if there is one
AppliedProfile(c) ==
    IF c.type_id \in DOMAIN CATALYST_TYPES THEN CATALYST_TYPES[c.type_id]
    ELSE Profile(0, 0, 0, 0)

\* C6: the load of the stored table succeeds with one catalyst per stored row,
\* and the profile the aggregator applies to each is the one derived from its
\* row: peak the stored radius, max 2.5 times it, k max(1.0, radius / 3), and
\* the strength from capex or jobs.
C6_DerivedProfileApplied ==
    loaded.status # "not_loaded" =>
        /\ loaded.status = "ok"
        /\ Len(loaded.catalysts) = Len(store)
        /\ \A i \in 1..Len(loaded.catalysts) :
              AppliedProfile(loaded.catalysts[i]) = DerivedProfile(store[i])

\* the catalysts that are in the catalog and within their max radius of the query
Contributing ==
    {i \in 1..Len(loaded.catalysts) :
        /\ loaded.catalysts[i].type_id \in DOMAIN CATALYST_TYPES
        /\ haversine_miles(scored.lat, scored.lng, loaded.catalysts[i].lat,
                           loaded.catalysts[i].lng)
             < CATALYST_TYPES[loaded.catalysts[i].type_id].r_max_miles}

\* the example: a catalyst of strength 1.0 at the query point, and a second
\* one of the catalog 100 miles away, beyond its max radius
ExampleOfTwo ==
    /\ scored.pc = "done"
    /\ Len(loaded.catalysts) = 2
    /\ loaded.catalysts[1].lat = scored.lat
    /\ loaded.catalysts[1].type_id \in DOMAIN CATALYST_TYPES
    /\ CATALYST_TYPES[loaded.catalysts[1].type_id].base_strength = 100
    /\ loaded.catalysts[2].type_id \in DOMAIN CATALYST_TYPES
    /\ haversine_miles(scored.lat, scored.lng, loaded.catalysts[2].lat,
                       loaded.catalysts[2].lng) >= 100000

\* C7 as stated: in the example the score is 1.0 / (1.0 + strength2),
\* strictly between 0.0 and 1.0.
C7_ExampleBelowOne ==
    ExampleOfTwo =>
        /\ scored.result.value =
             (100 * 10000) \div
                (100 + CATALYST_TYPES[loaded.catalysts[2].type_id].base_strength)
        /\ scored.result.value > 0
        /\ scored.result.value < 10000

\* C7 as amended: in the example the far catalyst is skipped, its strength
\* is not in the sum, and the score is exactly 1.0.
C7_ExampleIsOne == ExampleOfTwo => scored.result = Returned(10000)

C7_Witness ==
    /\ ExampleOfTwo
    /\ loaded.catalysts[1].type_id = "ev_gigafactory"
    /\ loaded.catalysts[2].type_id = "port"
    /\ scored.result.value = 10000

\* C8: some list of catalysts, each of positive strength and covering the
\* query point, has a score strictly above 1.0 (looked for, once the
\* aggregator has answered, among all the lists and query points of the model).
C8_CompoundingExists ==
    scored.pc = "done" =>
      \E cs \in SeqsUpTo(CatalystInstances, MaxCatalysts), lat \in QueryLats :
        /\ \A i \in 1..Len(cs) :
              /\ cs[i].type_id \in DOMAIN CATALYST_TYPES
              /\ WeightAt(lat, Meridian, cs[i]) > 0
        /\ compute_catalyst_score_for_parcel(lat, Meridian, cs).value > 10000

\* C9: the score returned lies in [0.0, 1.5].
C9_ScoreInRange ==
    scored.pc = "done" =>
        /\ scored.result.status = "ok"
        /\ scored.result.value >= 0
        /\ scored.result.value <= 15000

\* two catalysts in their decay tails, and a score strictly inside (0, 1)
C9_Witness ==
    /\ scored.pc = "done"
    /\ Cardinality(Contributing) = 2
    /\ scored.result.value > 0
    /\ scored.result.value < 10000

\* C10: with no catalysts, or with none that contributes a positive weight,
\* the aggregator returns exactly 0.0 and raises nothing.
C10_DegenerateIsZero ==
    /\ scored.pc = "done" => scored.result.status = "ok"
    /\ (scored.pc = "done" /\ Contributing = {}) => scored.result = Returned(0)

\* two catalysts of the catalog, both beyond their max radius
C10_Witness ==
    /\ scored.pc = "done"
    /\ Len(loaded.catalysts) = 2
    /\ \A i \in 1..2 : loaded.catalysts[i].type_id \in DOMAIN CATALYST_TYPES
    /\ Contributing = {}
    /\ scored.result = Returned(0)

-----------------------------------------------------------------------------
(* The radial decay called on its own: catalyst_impact.py *)

\* the distances of the calls are the multiples of a mile and a half up to
\* this many
DecaySteps == 8

\* distances, radii and decay constants in thousandths of a mile.  The radii
\* include a max radius at or below the peak radius, the constants include
\* zero and a negative one.
Distances == {i * 1500 : i \in 0..DecaySteps}
PeakRadii == {0, 3000, 6000}
MaxRadii == {0, 3000, 6000, 10000}
DecayConstants == {-1000, 0, 1, 2500, 8000}

\* impact_weight(distance_miles, r_peak, r_max, k) is called and returns
CallImpactWeight(d, p, m, k) ==
    /\ call' = [fn |-> "impact_weight",
                args |-> [distance_miles |-> d, r_peak |-> p, r_max |-> m, k |-> k],
                result |-> impact_weight(d, p, m, k)]
    /\ UNCHANGED <<upsertVars, ingestVars, scoreVars>>

NextDecay ==
    \E d \in Distances, p \in PeakRadii, m \in MaxRadii, k \in DecayConstants :
        CallImpactWeight(d, p, m, k)

SpecDecay == Init /\ [][NextDecay]_vars

-----------------------------------------------------------------------------
(* The decay's claims *)

\* C11 as stated: for every distance and every peak radius, max radius and
\* decay constant, the weight is exactly 1.0 when distance <= peak radius and
\* exactly 0.0 when distance >= max radius.
C11_PlateauAndCutoff ==
    call.fn = "impact_weight" =>
        /\ call.args.distance_miles <= call.args.r_peak => call.result = 10000
        /\ call.args.distance_miles >= call.args.r_max => call.result = 0

\* C11 as the code has it: the plateau is tested first.  The weight is
\* exactly 1.0 when distance <= peak radius, whatever the max radius, and
\* exactly 0.0 when distance >= max radius and distance > peak radius; with
\* max radius > peak radius that is the plateau and the cutoff as stated.
C11_PlateauBeforeCutoff ==
    call.fn = "impact_weight" =>
        /\ call.args.distance_miles <= call.args.r_peak => call.result = 10000
        /\ (/\ call.args.distance_miles >= call.args.r_max
            /\ call.args.distance_miles > call.args.r_peak) => call.result = 0

\* a call at a distance at or beyond the max radius and within the peak
\* radius has returned 1.0
C11_Witness ==
    /\ call.fn = "impact_weight"
    /\ call.args.distance_miles > 0
    /\ call.args.distance_miles >= call.args.r_max
    /\ call.args.distance_miles <= call.args.r_peak
    /\ call.result = 10000

\* two calls with the same peak radius, max radius and decay constant
SameProfile(a, b) ==
    /\ a.r_peak = b.r_peak
    /\ a.r_max = b.r_max
    /\ a.k = b.k

\* C12: for a fixed peak radius, max radius and decay constant, a
\* non-positive constant included, a call at a greater distance never returns
\* a greater weight than the call before it, and every weight is in [0, 1].
C12_MonotoneInDistance ==
    [][(/\ call.fn = "impact_weight"
        /\ call'.fn = "impact_weight"
        /\ SameProfile(call.args, call'.args)
        /\ call.args.distance_miles < call'.args.distance_miles)
       => (/\ call'.result <= call.result
           /\ call.result \in 0..10000
           /\ call'.result \in 0..10000)]_vars

\* a call in the tail, between the peak and the max radius, has returned a
\* weight strictly between 0 and 1
C12_Witness ==
    /\ call.fn = "impact_weight"
    /\ call.args.distance_miles > call.args.r_peak
    /\ call.args.distance_miles < call.args.r_max
    /\ call.result > 0
    /\ call.result < 10000

-----------------------------------------------------------------------------
(* The qualification rule called on its own: state_incentives.py *)

\* the normalized evidence the rule is given: capex in dollars (a float, so
\* nan too), jobs, and the year (int("0000") is 0)
RuleCapex == {None, NaN, Num(0), Num(MIN_CAPEX - 1), Num(MIN_CAPEX), Num(60000000)}
RuleJobs == {None, Num(0), Num(100), Num(MIN_JOBS - 1), Num(MIN_JOBS), Num(1700)}
RuleYears ==
    {None, Num(0), Num(2010), Num(2016), Num(2017), Num(2018), Num(2019),
     Num(2023), Num(2024)}

\* passes_rules(capex_usd, jobs, year) is called and returns
CallPassesRules(capex_usd, jobs, year) ==
    /\ call' = [fn |-> "passes_rules",
                args |-> [capex_usd |-> capex_usd, jobs |-> jobs, year |-> year,
                          now |-> now_year],
                result |-> passes_rules(capex_usd, jobs, year, now_year)]
    /\ UNCHANGED <<upsertVars, ingestVars, scoreVars>>

NextRules ==
    \E capex_usd \in RuleCapex, jobs \in RuleJobs, year \in RuleYears :
        CallPassesRules(capex_usd, jobs, year)

SpecRules == InitIngest /\ [][NextRules]_vars

\* C13: passes_rules returns true exactly when (the year is unknown, or the
\* current year minus the year is at most 7) and (capex is known and at
\* least 50,000,000, or jobs is known and at least 200).
C13_PassesRulesExact ==
    call.fn = "passes_rules" =>
        call.result =
            (/\ \/ IsNone(call.args.year)
                \/ call.args.now - call.args.year.v <= 7
             /\ \/ IsNum(call.args.capex_usd) /\ call.args.capex_usd.v >= 50000000
                \/ IsNum(call.args.jobs) /\ call.args.jobs.v >= 200)

-----------------------------------------------------------------------------
(* The category classifier called on its own: state_incentives.py *)

\* the words the sector texts of the calls are made of; the empty text
\* stands for a sector that is None as well (`if not sector`)
SectorWords ==
    {<<>>,
     <<"E", "V">>,
     <<"A", "U", "T", "O">>,
     <<"S", "e", "m", "i">>,
     <<"c", "h", "i", "p">>,
     <<"L", "o", "g", "i", "s", "t", "i", "c">>,
     <<"d", "a", "t", "a", " ", "c", "e", "n", "t", "e", "r">>,
     <<"W", "i", "n", "d">>,
     <<"R", "e", "t", "a", "i", "l">>}

\* a sector text: one word, or two words one after the other
SectorTexts == {a \o b : a \in SectorWords, b \in SectorWords}

\* classify_type_id(sector, cfg) is called for adapter c and returns
CallClassifyTypeId(sector, c) ==
    /\ call' = [fn |-> "classify_type_id",
                args |-> [sector |-> sector, cfg |-> c],
                result |-> classify_type_id(sector, STATE_SOURCES[c])]
    /\ UNCHANGED <<upsertVars, ingestVars, scoreVars>>

NextClassify ==
    \E sector \in SectorTexts, c \in 1..Len(STATE_SOURCES) :
        CallClassifyTypeId(sector, c)

SpecClassify == Init /\ [][NextClassify]_vars

\* the keyword groups and their categories in the order of the statement
StatedOrder ==
    <<[keywords |-> {<<"b", "a", "t", "t", "e", "r", "y">>,
                     <<"e", "v">>},
       category |-> "ev_gigafactory"],
      [keywords |-> {<<"s", "e", "m", "i">>,
                     <<"c", "h", "i", "p">>},
       category |-> "semiconductor_fab"],
      [keywords |-> {<<"l", "o", "g", "i", "s", "t", "i", "c">>,
                     <<"d", "i", "s", "t", "r", "i", "b", "u", "t", "i", "o", "n">>,
                     <<"f", "u", "l", "f", "i", "l", "l", "m", "e", "n", "t">>},
       category |-> "logistics_hub"],
      [keywords |-> {<<"d", "a", "t", "a", " ", "c", "e", "n", "t", "e", "r">>},
       category |-> "data_center_cluster"],
      [keywords |-> {<<"h", "y", "d", "r", "o", "g", "e", "n">>,
                     <<"s", "o", "l", "a", "r">>,
                     <<"w", "i", "n", "d">>},
       category |-> "energy_cluster"],
      [keywords |-> {<<"a", "u", "t", "o">>},
       category |-> "auto_assembly"]>>

RECURSIVE FirstMatch(_, _, _)
\* the category of the first group, top to bottom, one of whose keywords is
\* a substring of s; the default when no group matches
FirstMatch(s, groups, default) ==
    IF groups = <<>> THEN default
    ELSE IF \E kw \in Head(groups).keywords : Contains(s, kw)
    THEN Head(groups).category
    ELSE FirstMatch(s, Tail(groups), default)

\* C14: the keyword groups are evaluated in the stated order (battery/ev,
\* semi/chip, logistic/distribution/fulfillment, data center,
\* hydrogen/solar/wind, auto), case-insensitively by substring, the first
\* matching group alone decides, and an absent, empty or unmatched sector
\* gives the adapter's default category.
C14_StatedOrderDecides ==
    call.fn = "classify_type_id" =>
        call.result =
            IF call.args.sector = <<>>
            THEN STATE_SOURCES[call.args.cfg].default_type_id
            ELSE FirstMatch(Lower(call.args.sector), StatedOrder,
                            STATE_SOURCES[call.args.cfg].default_type_id)

\* a catalyst of the given category placed at the given latitude
InstanceOf(type_id, lat) ==
    [id |-> 1, type_id |-> type_id, name |-> "c", lat |-> lat, lng |-> Meridian]

\* C15: every category the classifier gives a row (a keyword group's
\* category or the adapter's default) is a key of the type catalog
\* CATALYST_TYPES, so a catalyst of that category at the query point itself
\* is counted by the aggregator: its score there is positive.
C15_IngestedTypeInCatalog ==
    call.fn = "classify_type_id" =>
        /\ call.result \in DOMAIN CATALYST_TYPES
        /\ \A lat \in QueryLats :
              compute_catalyst_score_for_parcel(
                  lat, Meridian, <<InstanceOf(call.result, lat)>>).value > 0

=============================================================================
